---- MODULE Spec2Model ----
(***************************************************************************)
(* Model of smtp.Service (src/smtp/service.go): the lifecycle controller   *)
(* (Open/Close), the dispatch API (SendMail/Update), and the single        *)
(* connection worker (runMailer) that owns the transport connection.       *)
(*                                                                         *)
(* Channels are unbuffered, so a send and its receive are one joint step.  *)
(* The transport (gomail) is recorded as a list of dialed connections,     *)
(* with how often each was closed, and a count of the sends made.          *)
(***************************************************************************)
EXTENDS Integers, Sequences, FiniteSets, Bags, TLC

\* ---- bounds ----
NumCallers == 2          \* caller goroutines inside a call at the same time
MaxSendMails == 2        \* SendMail calls that pass validation
MaxUpdates == 2          \* Update calls that store a snapshot
MaxOpens == 2            \* Open calls that start a worker

\* ---- Config (src/smtp/service.go, second file: type Config) ----
DefaultPort == 25
Hosts == {"h1", "h2"}
ToLists == {<<>>, <<"a@x.com">>}

\* A Config value; the fields not chosen are derived from the host so that
\* the two hosts differ in authentication, TLS policy and idle timeout.
MkConfig(enabled, host, to) ==
    [Enabled |-> enabled, Host |-> host, Port |-> DefaultPort,
     Username |-> IF host = "h1" THEN "" ELSE "user",
     Password |-> IF host = "h1" THEN "" ELSE "pw",
     NoVerify |-> (host = "h2"),
     From |-> "from@" \o host,
     To |-> to,
     IdleTimeout |-> IF host = "h1" THEN 30 ELSE 60]

\* The snapshots used: enabled with a default recipient, enabled without
\* one, and disabled.
Configs == {MkConfig(TRUE, "h1", <<"a@x.com">>),
            MkConfig(TRUE, "h2", <<>>),
            MkConfig(FALSE, "h2", <<"a@x.com">>)}

\* The snapshot passed to NewService; the others are reached through Update,
\* which needs no open service.
InitialConfig == MkConfig(TRUE, "h1", <<"a@x.com">>)

\* Arguments of SendMail(to, subject, body); subject and body are carried
\* unchanged and play no part in the control flow.
ToArgs == {<<>>, <<"b@x.com">>}

\* Arguments of Update(newConfig []interface{}): each element is a value of
\* some dynamic type, a Config or something else.
ZeroConfig ==
    [Enabled |-> FALSE, Host |-> "", Port |-> 0, Username |-> "",
     Password |-> "", NoVerify |-> FALSE, From |-> "", To |-> <<>>,
     IdleTimeout |-> 0]
AsIface(c) == [isConfig |-> TRUE, c |-> c]
NotAConfig == [isConfig |-> FALSE, c |-> ZeroConfig]
UpdateArgs == {<<>>, <<NotAConfig>>} \cup {<<AsIface(c)>> : c \in Configs}
                \cup {<<AsIface(c), AsIface(c)>> : c \in {MkConfig(TRUE, "h2", <<>>)}}

\* ---- values standing for Go's zero values ----
NilChan == 0
NilConn == 0
NoMsg == [From |-> "", To |-> <<>>, Subject |-> "", Body |-> ""]
NoDialer == [Host |-> "", Port |-> 0, Auth |-> "none", Username |-> "",
             Password |-> "", InsecureSkipVerify |-> FALSE]

\* ---- calls in progress ----
\* A call of a Service method that has not returned yet: the method, the
\* position reached in it, and the locals it holds there.  For SendMail,
\* msg is the message built and ch the channel value read from s.mail; to,
\* snap and seen record the argument, the snapshot read and the state the
\* service was in when the call entered and read s.mail.  For Update,
\* args is the argument newConfig and ver counts the snapshot it stored.
Call(op, at) ==
    [op |-> op, at |-> at, msg |-> NoMsg, ch |-> NilChan,
     to |-> <<>>, snap |-> ZeroConfig, seen |-> "", args |-> <<>>, ver |-> 0]

\* What the last step showed to the outside: the return of a call (with
\* result v; call is the call as it was when it returned) or the firing of
\* the idle timer; NoEvent otherwise.
NoEvent == [op |-> "", v |-> "", call |-> Call("", "")]
TimerFired == [op |-> "timer", v |-> "", call |-> Call("", "")]

VARIABLES
    \* Service fields
    opened,        \* s.opened
    mu,            \* s.mu: TRUE while held (by a Close waiting for the worker)
    configValue,   \* s.configValue
    mail,          \* s.mail: NilChan or the id of the channel made by Open
    closedChans,   \* ids of the mail channels that have been closed
    wg,            \* s.wg counter
    \* callers
    calls,         \* the bag of calls in progress
    ev,            \* what the last step showed: a call's return, a timer firing
    \* worker (runMailer) locals
    wpc,           \* "none", "start", "select", "reload", "mail", "exited"
    d,             \* the dialer
    idleTimeout,
    conn,          \* NilConn or the handle in conn
    open,
    m,             \* the message being handled
    \* transport
    conns,         \* dialed connections: [params, closes]
    sends,         \* number of gomail.Send calls made
    \* history
    hist           \* counters and marks used to state the properties

vars == <<opened, mu, configValue, mail, closedChans, wg, calls, ev,
          wpc, d, idleTimeout, conn, open, m, conns, sends, hist>>

svcVars == <<opened, mu, configValue, mail, closedChans, wg>>
workerVars == <<wpc, d, idleTimeout, conn, open, m>>
transportVars == <<conns, sends>>

\* ---- pure functions of the source ----

\* Service.config
config == configValue

\* (variant: the enabled flag is not looked at)
prepareMessge_NoEnabledCheck(c, to) ==
    LET to2 == IF Len(to) = 0 THEN c.To ELSE to
    IN IF Len(to2) = 0
       THEN [err |-> "ErrNoRecipients", m |-> NoMsg]
       ELSE [err |-> "nil",
             m |-> [From |-> c.From, To |-> to2,
                    Subject |-> "subject", Body |-> "body"]]

\* (variant: an empty to is not replaced by the default list)
prepareMessge_NoDefault(c, to) ==
    IF ~c.Enabled THEN [err |-> "service is not enabled", m |-> NoMsg]
    ELSE IF Len(to) = 0
         THEN [err |-> "ErrNoRecipients", m |-> NoMsg]
         ELSE [err |-> "nil",
               m |-> [From |-> c.From, To |-> to,
                      Subject |-> "subject", Body |-> "body"]]

\* Service.prepareMessge: the error, and the message when there is none.
prepareMessge(c, to) ==
    IF ~c.Enabled THEN [err |-> "service is not enabled", m |-> NoMsg]
    ELSE LET to2 == IF Len(to) = 0 THEN c.To ELSE to
         IN IF Len(to2) = 0
            THEN [err |-> "ErrNoRecipients", m |-> NoMsg]
            ELSE [err |-> "nil",
                  m |-> [From |-> c.From, To |-> to2,
                         Subject |-> "subject", Body |-> "body"]]

\* Service.dialer: the dialer and the idle timeout derived from a Config.
dialer(c) ==
    [d |-> [Host |-> c.Host, Port |-> c.Port,
            Auth |-> IF c.Username = "" THEN "none" ELSE "plain",
            Username |-> c.Username,
            Password |-> IF c.Username = "" THEN "" ELSE c.Password,
            InsecureSkipVerify |-> c.NoVerify],
     idleTimeout |-> c.IdleTimeout]

\* (variant: the dynamic type of the element is not checked)
UpdateCheck_NoTypeCheck(args) ==
    IF Len(args) # 1 THEN "expected only one new config object"
    ELSE "nil"

\* Service.Update, argument checks: the error, "nil" when the list holds
\* exactly one Config.
UpdateCheck(args) ==
    IF Len(args) # 1 THEN "expected only one new config object"
    ELSE IF ~args[1].isConfig THEN "expected config object to be of type Config"
    ELSE "nil"

\* gomail SendCloser.Close on handle h.
TransportClose(cs, h) == [cs EXCEPT ![h].closes = @ + 1]

\* Connections dialed and not yet closed.
LiveConns == {h \in 1..Len(conns) : conns[h].closes = 0}

Max(a, b) == IF a >= b THEN a ELSE b

\* ---- bookkeeping of calls ----
InProgress == BagToSet(calls)

\* A caller is free to enter a call.
CallerFree == BagCardinality(calls) < NumCallers

Enter(c) == calls' = calls (+) SetToBag({c})
Leave(c) == calls' = calls (-) SetToBag({c})
Move(c, c2) == calls' = (calls (-) SetToBag({c})) (+) SetToBag({c2})

Returns(c, v) == ev' = [op |-> c.op, v |-> v, call |-> c]

\* ---- initial state: NewService(c, d) ----
Init ==
    /\ opened = FALSE
    /\ mu = FALSE
    /\ configValue = InitialConfig
    /\ mail = NilChan
    /\ closedChans = {}
    /\ wg = 0
    /\ calls = EmptyBag
    /\ ev = NoEvent
    /\ wpc = "none"
    /\ d = NoDialer
    /\ idleTimeout = 0
    /\ conn = NilConn
    /\ open = FALSE
    /\ m = NoMsg
    /\ conns = <<>>
    /\ sends = 0
    /\ hist = [sendMails |-> 0, cfgVer |-> 0, dVer |-> 0, retVer |-> 0,
               reconfMark |-> 0, reconfConn |-> NilConn]

\* ---- Service.Open ----
OpenNoop ==
    /\ CallerFree
    /\ ~mu
    /\ opened
    /\ Returns(Call("Open", "entry"), "nil")
    /\ UNCHANGED <<svcVars, calls, workerVars, transportVars, hist>>

OpenStart ==
    /\ CallerFree
    /\ ~mu
    /\ ~opened
    /\ mail < MaxOpens
    /\ opened' = TRUE
    /\ mail' = mail + 1
    /\ wg' = wg + 1
    \* go s.runMailer(): a new worker with fresh locals
    /\ wpc' = "start"
    /\ d' = NoDialer
    /\ idleTimeout' = 0
    /\ conn' = NilConn
    /\ open' = FALSE
    /\ m' = NoMsg
    /\ Returns(Call("Open", "entry"), "nil")
    /\ UNCHANGED <<mu, configValue, closedChans, calls, transportVars, hist>>

\* ---- Service.Close ----
CloseNoop ==
    /\ CallerFree
    /\ ~mu
    /\ ~opened
    /\ Returns(Call("Close", "entry"), "nil")
    /\ UNCHANGED <<svcVars, calls, workerVars, transportVars, hist>>

\* Lock, mark closed, close(s.mail); the caller then sits in s.wg.Wait()
\* with the mutex held.
CloseBegin ==
    /\ CallerFree
    /\ ~mu
    /\ opened
    /\ mu' = TRUE
    /\ opened' = FALSE
    /\ closedChans' = closedChans \cup {mail}
    /\ Enter(Call("Close", "wait"))
    /\ ev' = NoEvent
    /\ UNCHANGED <<configValue, mail, wg, workerVars, transportVars, hist>>

\* (variant: Close does not wait for the worker)
CloseWaitDone_NoWait == TRUE

\* s.wg.Wait() returns once the counter is zero, that is once the worker has
\* exited.
CloseWaitDone == wg = 0

\* s.wg.Wait() returns; unlock and return.
CloseEnd ==
    /\ Call("Close", "wait") \in InProgress
    /\ CloseWaitDone
    /\ mu' = FALSE
    /\ Leave(Call("Close", "wait"))
    /\ Returns(Call("Close", "wait"), "nil")
    /\ UNCHANGED <<opened, configValue, mail, closedChans, wg,
                   workerVars, transportVars, hist>>

\* ---- Service.SendMail ----
\* What the service looks like to a caller in SendMail: open, inside a
\* Close, never opened, or closed by a Close that has returned.
ServiceState ==
    IF opened THEN "open"
    ELSE IF mu THEN "closing"
    ELSE IF mail = NilChan THEN "never"
    ELSE "closed"

\* prepareMessge returns an error: SendMail returns it.
SendMailReject(to) ==
    /\ CallerFree
    /\ prepareMessge(config, to).err # "nil"
    /\ Returns([Call("SendMail", "entry") EXCEPT !.to = to, !.snap = config],
               prepareMessge(config, to).err)
    /\ UNCHANGED <<svcVars, calls, workerVars, transportVars, hist>>

\* prepareMessge returns a message.
SendMailPrepare(to) ==
    /\ CallerFree
    /\ hist.sendMails < MaxSendMails
    /\ prepareMessge(config, to).err = "nil"
    /\ Enter([Call("SendMail", "prepared") EXCEPT
                !.msg = prepareMessge(config, to).m,
                !.to = to, !.snap = config, !.seen = ServiceState])
    /\ ev' = NoEvent
    /\ hist' = [hist EXCEPT !.sendMails = @ + 1]
    /\ UNCHANGED <<svcVars, workerVars, transportVars>>

\* s.mail <- m, first half: the channel operand s.mail is read (without the
\* mutex: a read that races with Open's write sees the old or the new
\* value), then the caller waits on that channel value.
SendMailReadChan(c) ==
    /\ c.op = "SendMail" /\ c.at = "prepared"
    /\ Move(c, [c EXCEPT !.at = "send", !.ch = mail,
                         !.seen = IF ServiceState = @ THEN @ ELSE "changed"])
    /\ ev' = NoEvent
    /\ UNCHANGED <<svcVars, workerVars, transportVars, hist>>

\* A send on a closed channel panics, also when the sender was already
\* waiting when the channel was closed; the panic unwinds into the caller of
\* SendMail.  A send on a nil channel blocks forever: no step is enabled
\* for it.
SendMailPanic(c) ==
    /\ c.op = "SendMail" /\ c.at = "send"
    /\ c.ch \in closedChans
    /\ Leave(c)
    /\ Returns(c, "panic")
    /\ UNCHANGED <<svcVars, workerVars, transportVars, hist>>

\* ---- Service.Update ----
UpdateReject(args) ==
    /\ CallerFree
    /\ UpdateCheck(args) # "nil"
    /\ Returns([Call("Update", "entry") EXCEPT !.args = args],
               UpdateCheck(args))
    /\ UNCHANGED <<svcVars, calls, workerVars, transportVars, hist>>

\* s.configValue.Store(c)
UpdateStore(args) ==
    /\ CallerFree
    /\ hist.cfgVer < MaxUpdates
    /\ UpdateCheck(args) = "nil"
    /\ configValue' = args[1].c
    /\ Enter([Call("Update", "stored") EXCEPT
                !.args = args, !.ver = hist.cfgVer + 1])
    /\ ev' = NoEvent
    /\ hist' = [hist EXCEPT !.cfgVer = @ + 1]
    /\ UNCHANGED <<opened, mu, mail, closedChans, wg, workerVars, transportVars>>

\* (variant: Update returns without handing the signal to the worker)
UpdateSeesOpen_NoSignal(c) ==
    /\ c.op = "Update" /\ c.at = "stored"
    /\ ~mu
    /\ opened
    /\ Leave(c)
    /\ Returns(c, "nil")
    /\ hist' = [hist EXCEPT !.retVer = Max(@, c.ver)]
    /\ UNCHANGED <<svcVars, workerVars, transportVars>>

\* s.mu.Lock(); opened := s.opened; s.mu.Unlock(), service open: go on to
\* the signal.
UpdateSeesOpen(c) ==
    /\ c.op = "Update" /\ c.at = "stored"
    /\ ~mu
    /\ opened
    /\ Move(c, [c EXCEPT !.at = "signal"])
    /\ ev' = NoEvent
    /\ UNCHANGED <<svcVars, workerVars, transportVars, hist>>

\* (variant: Update returns after the store whatever s.opened says)
UpdateSeesClosed_IgnoresOpened(c) ==
    /\ c.op = "Update" /\ c.at = "stored"
    /\ ~mu
    /\ Leave(c)
    /\ Returns(c, "nil")
    /\ hist' = [hist EXCEPT !.retVer = Max(@, c.ver)]
    /\ UNCHANGED <<svcVars, workerVars, transportVars>>

\* ... service not open: return nil without a signal.
UpdateSeesClosed(c) ==
    /\ c.op = "Update" /\ c.at = "stored"
    /\ ~mu
    /\ ~opened
    /\ Leave(c)
    /\ Returns(c, "nil")
    /\ hist' = [hist EXCEPT !.retVer = Max(@, c.ver)]
    /\ UNCHANGED <<svcVars, workerVars, transportVars>>

\* ---- Service.runMailer: the connection worker ----

\* d, idleTimeout = s.dialer() before the loop
WStart ==
    /\ wpc = "start"
    /\ d' = dialer(config).d
    /\ idleTimeout' = dialer(config).idleTimeout
    /\ wpc' = "select"
    /\ ev' = NoEvent
    /\ hist' = [hist EXCEPT !.dVer = hist.cfgVer]
    /\ UNCHANGED <<svcVars, calls, conn, open, m, transportVars>>

\* case <-s.updates: the worker takes the signal of the Update call c, which
\* returns nil.
WRecvUpdate(c) ==
    /\ wpc = "select"
    /\ c.op = "Update" /\ c.at = "signal"
    /\ wpc' = "reload"
    /\ Leave(c)
    /\ Returns(c, "nil")
    /\ hist' = [hist EXCEPT !.retVer = Max(@, c.ver)]
    /\ UNCHANGED <<svcVars, d, idleTimeout, conn, open, m, transportVars>>

\* (variant: the updates case closes the connection but keeps conn and open)
ReloadResult_KeepOpen ==
    [conns |-> IF conn # NilConn THEN TransportClose(conns, conn) ELSE conns,
     conn |-> conn,
     open |-> open,
     d |-> dialer(config).d,
     idleTimeout |-> dialer(config).idleTimeout,
     dVer |-> hist.cfgVer]

\* (variant: the updates case makes a new dialer but keeps the old timeout)
ReloadResult_StaleTimeout ==
    [conns |-> IF conn # NilConn THEN TransportClose(conns, conn) ELSE conns,
     conn |-> NilConn,
     open |-> FALSE,
     d |-> dialer(config).d,
     idleTimeout |-> idleTimeout,
     dVer |-> hist.cfgVer]

\* The worker's state after the body of the updates case.
ReloadResult ==
    [conns |-> IF conn # NilConn THEN TransportClose(conns, conn) ELSE conns,
     conn |-> NilConn,
     open |-> FALSE,
     d |-> dialer(config).d,
     idleTimeout |-> dialer(config).idleTimeout,
     dVer |-> hist.cfgVer]

\* body of the updates case: close the old connection, make a new dialer
WReload ==
    /\ wpc = "reload"
    /\ conns' = ReloadResult.conns
    /\ conn' = ReloadResult.conn
    /\ d' = ReloadResult.d
    /\ idleTimeout' = ReloadResult.idleTimeout
    /\ open' = ReloadResult.open
    /\ wpc' = "select"
    /\ ev' = NoEvent
    /\ hist' = [hist EXCEPT !.dVer = ReloadResult.dVer,
                            !.reconfMark = Len(conns),
                            !.reconfConn = IF open THEN conn ELSE NilConn]
    /\ UNCHANGED <<svcVars, calls, m, sends>>

\* case m, ok := <-s.mail with ok: the worker takes the message of the
\* SendMail call c, which returns nil.
WRecvMail(c) ==
    /\ wpc = "select"
    /\ c.op = "SendMail" /\ c.at = "send"
    /\ c.ch = mail
    /\ mail \notin closedChans
    /\ m' = c.msg
    /\ wpc' = "mail"
    /\ Leave(c)
    /\ Returns(c, "nil")
    /\ UNCHANGED <<svcVars, d, idleTimeout, conn, open, transportVars, hist>>

\* (variant: dials for every message)
MustDial_Always == TRUE

\* if !open: the message needs a dial first
MustDial == ~open

\* (variant: a failed dial still marks the worker connected)
WDialFail_MarksOpen ==
    /\ wpc = "mail"
    /\ MustDial
    /\ conn' = NilConn
    /\ open' = TRUE
    /\ m' = NoMsg
    /\ wpc' = "select"
    /\ ev' = NoEvent
    /\ UNCHANGED <<svcVars, calls, d, idleTimeout, transportVars, hist>>

\* d.Dial() fails: conn is nil, the message is dropped
WDialFail ==
    /\ wpc = "mail"
    /\ MustDial
    /\ conn' = NilConn
    /\ m' = NoMsg
    /\ wpc' = "select"
    /\ ev' = NoEvent
    /\ UNCHANGED <<svcVars, calls, d, idleTimeout, open, transportVars, hist>>

\* d.Dial() succeeds, then gomail.Send (whether it fails changes nothing
\* but the diagnostics)
WDialSend ==
    /\ wpc = "mail"
    /\ MustDial
    /\ conns' = Append(conns, [params |-> d, closes |-> 0])
    /\ conn' = Len(conns) + 1
    /\ open' = TRUE
    /\ sends' = sends + 1
    /\ m' = NoMsg
    /\ wpc' = "select"
    /\ ev' = NoEvent
    /\ UNCHANGED <<svcVars, calls, d, idleTimeout, hist>>

\* (variant: the worker sends and keeps the message for another round)
WSend_KeepsMessage ==
    /\ wpc = "mail"
    /\ ~MustDial
    /\ sends < MaxSendMails
    /\ sends' = sends + 1
    /\ ev' = NoEvent
    /\ UNCHANGED <<svcVars, calls, workerVars, conns, hist>>

\* already open: gomail.Send over conn (whether it fails changes nothing
\* but the diagnostics)
WSend ==
    /\ wpc = "mail"
    /\ ~MustDial
    /\ sends' = sends + 1
    /\ m' = NoMsg
    /\ wpc' = "select"
    /\ ev' = NoEvent
    /\ UNCHANGED <<svcVars, calls, d, idleTimeout, conn, open, conns, hist>>

\* (variant: the worker returns without the deferred close)
DeferredClose_Skipped == conns

\* The connection list after the deferred function of runMailer.
DeferredClose ==
    IF conn # NilConn THEN TransportClose(conns, conn) ELSE conns

\* (variant: the worker ignores the closed queue and stays in its loop)
WClosed_KeepsRunning ==
    /\ wpc = "select"
    /\ mail \in closedChans
    /\ ev' = NoEvent
    /\ UNCHANGED <<svcVars, calls, workerVars, transportVars, hist>>

\* case m, ok := <-s.mail with !ok: return, running the deferred close and
\* wg.Done()
WClosed ==
    /\ wpc = "select"
    /\ mail \in closedChans
    /\ conns' = DeferredClose
    /\ wpc' = "exited"
    /\ wg' = wg - 1
    /\ ev' = NoEvent
    /\ UNCHANGED <<opened, mu, configValue, mail, closedChans, calls,
                   d, idleTimeout, conn, open, m, sends, hist>>

\* (variant: the timer case closes the connection but keeps open)
TimerResult_KeepOpen ==
    [conns |-> IF open THEN TransportClose(conns, conn) ELSE conns,
     open |-> open]

\* (variant: the timer case clears open without closing the connection)
TimerResult_NoClose ==
    [conns |-> conns,
     open |-> FALSE]

\* The worker's state after the body of the timer case.
TimerResult ==
    [conns |-> IF open THEN TransportClose(conns, conn) ELSE conns,
     open |-> FALSE]

\* case <-timer.C: the idle timer fires
WTimer ==
    /\ wpc = "select"
    /\ conns' = TimerResult.conns
    /\ open' = TimerResult.open
    /\ ev' = TimerFired
    /\ UNCHANGED <<svcVars, calls, wpc, d, idleTimeout, conn, m, sends, hist>>

\* ---- the program ----
Next ==
    \/ OpenNoop
    \/ OpenStart
    \/ CloseNoop
    \/ CloseBegin
    \/ CloseEnd
    \/ \E to \in ToArgs : SendMailReject(to)
    \/ \E to \in ToArgs : SendMailPrepare(to)
    \/ \E c \in InProgress : SendMailReadChan(c)
    \/ \E c \in InProgress : SendMailPanic(c)
    \/ \E args \in UpdateArgs : UpdateReject(args)
    \/ \E args \in UpdateArgs : UpdateStore(args)
    \/ \E c \in InProgress : UpdateSeesOpen(c)
    \/ \E c \in InProgress : UpdateSeesClosed(c)
    \/ WStart
    \/ \E c \in InProgress : WRecvUpdate(c)
    \/ WReload
    \/ \E c \in InProgress : WRecvMail(c)
    \/ WDialFail
    \/ WDialSend
    \/ WSend
    \/ WClosed
    \/ WTimer

Spec == Init /\ [][Next]_vars

\* ---- scheduling ----
\* A step of the worker goroutine other than the firing of its timer: a
\* statement of runMailer, a transport call returning, or a receive that
\* its select can make.
WorkerStep ==
    \/ WStart
    \/ WReload
    \/ WDialFail
    \/ WDialSend
    \/ WSend
    \/ WClosed
    \/ \E c \in InProgress : WRecvUpdate(c)
    \/ \E c \in InProgress : WRecvMail(c)

\* A step of a caller goroutine inside a call that needs nobody else: the
\* read of s.mail, the panic of a send on a closed channel, the read of
\* s.opened once the mutex is free, the return of wg.Wait().
CallerStep ==
    \/ CloseEnd
    \/ \E c \in InProgress : SendMailReadChan(c)
    \/ \E c \in InProgress : SendMailPanic(c)
    \/ \E c \in InProgress : UpdateSeesOpen(c)
    \/ \E c \in InProgress : UpdateSeesClosed(c)

\* The Go scheduler runs every goroutine that can run, every transport call
\* returns, and a select whose channel case stays ready does not choose
\* the timer for ever.  No new call has to be made and the timer does not
\* have to fire.
FairSpec == Spec /\ WF_vars(WorkerStep) /\ WF_vars(CallerStep)

\* ======================= properties =======================

\* A SendMail call has just panicked that entered and read s.mail while the
\* service was in one of the states sts.
PanickedHaving(sts) ==
    ev.op = "SendMail" /\ ev.v = "panic" /\ ev.call.seen \in sts

\* The step in which the worker makes one gomail.Send.
SendStep == sends' = sends + 1

\* The step in which the worker takes a message from the queue.
TakeStep == wpc = "select" /\ wpc' = "mail"

\* The step in which a SendMail call returns straight from prepareMessge.
RejectStep == ev'.op = "SendMail" /\ ev'.call.at = "entry"

\* The SendMail calls that get past prepareMessge in this step.
Accepted ==
    {c \in BagToSet(calls') :
        /\ c.op = "SendMail" /\ c.at = "prepared"
        /\ CopiesIn(c, calls') > CopiesIn(c, calls)}

\* C1: a SendMail call that passes validation and is made after Close() has
\* returned on a previously opened service (and before any new Open) does
\* not panic: it returns an error to its caller.
C1_SendAfterCloseReturnsError == ~PanickedHaving({"closed"})

\* C2: a SendMail call that passes validation and runs concurrently with a
\* Close() (the service was open or inside the Close when the call entered
\* or read the queue) never panics, also when it was already waiting on the
\* queue hand-off when the queue was closed.
C2_ConcurrentSendNeverPanics == ~PanickedHaving({"open", "closing", "changed"})

\* C3: in every reachable state at most one transport connection has been
\* dialed successfully and not yet closed.
C3_AtMostOneOpenConnection == Cardinality(LiveConns) <= 1

\* C3 witness: after a Close and a new Open the second worker holds its own
\* live connection, the first worker's connection being closed.
C3_Witness ==
    /\ mail = 2
    /\ Len(conns) = 2
    /\ LiveConns = {2}
    /\ open /\ conn = 2

\* C4: in the state in which a Close() call returns, the worker has exited
\* (the WaitGroup counter is zero) and no transport connection is open.
C4_CloseReturnsDrained ==
    ev.op = "Close" =>
        /\ wpc \in {"none", "exited"}
        /\ wg = 0
        /\ LiveConns = {}

\* C4 witness: a Close() of an open service has just returned, and the
\* worker it waited for held a connection that its deferred function closed.
C4_Witness ==
    /\ ev.op = "Close" /\ ev.call.at = "wait"
    /\ wpc = "exited"
    /\ open /\ conn # NilConn
    /\ conns[conn].closes = 1

\* C5: the transport's Close is never invoked on a handle that was already
\* closed: every handle has been closed at most once.
C5_ClosedAtMostOnce ==
    \A h \in 1..Len(conns) : conns[h].closes <= 1

\* C6: when the worker handles a reconfiguration signal it closes the open
\* connection, becomes idle and reloads its dialer; every later send goes
\* over a live connection dialed after the signal was handled, with the
\* worker's reloaded dialer, never over a connection dialed before it.
C6_ReconfigurationDropsConnection ==
    [][ /\ (wpc = "reload" /\ wpc' = "select") =>
            /\ ~open' /\ conn' = NilConn /\ LiveConns' = {}
            /\ d' = dialer(config).d
        /\ SendStep =>
            /\ conn' > hist.reconfMark
            /\ conn' \in LiveConns'
            /\ conns'[conn'].params = d ]_vars

\* C6 witness: a signal was handled while a connection was open, that
\* connection is closed, and a message has since been sent over a later
\* connection dialed with other parameters.
C6_Witness ==
    /\ hist.reconfConn # NilConn
    /\ conns[hist.reconfConn].closes = 1
    /\ open /\ conn > hist.reconfMark
    /\ sends = 2
    /\ conns[conn].params # conns[hist.reconfConn].params

\* C7 as claimed: whenever the worker takes a message, its dialer (and the
\* connection it holds, if any) has the parameters of the snapshot stored
\* last, that is of every snapshot an Update has stored so far or a later one.
C7_StoredSnapshotUsedByNextMessage ==
    [][ TakeStep =>
            /\ d = dialer(config).d
            /\ open => conns[conn].params = dialer(config).d ]_vars

\* C7 amended: while the worker handles a message, its dialer was loaded
\* from the store no earlier than the store of any Update call that has
\* returned, and the connection it holds, if any, is live and was dialed with
\* that dialer.
C7_ReturnedUpdateUsedByNextMessage ==
    wpc = "mail" =>
        /\ hist.dVer >= hist.retVer
        /\ open => (conn \in LiveConns /\ conns[conn].params = d)

\* C7 witness: an Update on the open service has returned after the worker
\* dropped a connection for it, and the worker now handles a message with
\* the dialer of the new snapshot.
C7_Witness ==
    /\ wpc = "mail"
    /\ hist.retVer >= 1
    /\ hist.reconfConn # NilConn
    /\ hist.dVer >= hist.retVer
    /\ d # conns[hist.reconfConn].params

\* C8: when the idle timer fires while the worker is connected, the
\* connection is closed and the worker becomes idle; when it fires while the
\* worker is idle, no transport call is made and nothing changes; a message
\* handled while idle is sent over a connection dialed for it.
C8_IdleTimer ==
    [][ /\ (ev'.op = "timer" /\ open) =>
            /\ conns' = TransportClose(conns, conn)
            /\ ~open' /\ LiveConns' = {} /\ sends' = sends
        /\ (ev'.op = "timer" /\ ~open) =>
            UNCHANGED <<conns, sends, conn, open>>
        /\ (SendStep /\ ~open) =>
            /\ Len(conns') = Len(conns) + 1
            /\ conn' = Len(conns')
            /\ conn' \in LiveConns' ]_vars

\* C8 witness: with no reconfiguration and no restart, the first connection
\* was closed by the idle timer and the next message was sent over a second,
\* freshly dialed connection.
C8_Witness ==
    /\ mail = 1 /\ hist.reconfMark = 0 /\ wpc = "select"
    /\ Len(conns) = 2 /\ conns[1].closes = 1
    /\ open /\ conn = 2 /\ sends = 2

\* C9: while the stored snapshot has enabled = false, no SendMail call gets
\* past prepareMessge: the call returns the disabled-service error and
\* changes nothing of the service, the queue, the worker or the transport.
C9_DisabledNeverQueues ==
    [][ ~config.Enabled =>
            /\ Accepted = {}
            /\ RejectStep =>
                /\ ev'.v = "service is not enabled"
                /\ UNCHANGED <<calls, svcVars, workerVars, transportVars>> ]_vars

\* C9 witness: SendMail has just returned the disabled-service error on an
\* open service whose worker is waiting for messages.
C9_Witness ==
    /\ ev.op = "SendMail" /\ ev.v = "service is not enabled"
    /\ opened /\ wpc = "select"

\* C10: the message the worker takes carries the caller's to list when that
\* is non-empty and otherwise the default list of the snapshot the call read;
\* on an enabled snapshot SendMail returns straight away only when both lists
\* are empty, then with ErrNoRecipients and without changing anything.
C10_RecipientResolution ==
    [][ /\ TakeStep =>
            /\ m' = ev'.call.msg
            /\ m'.To = (IF Len(ev'.call.to) = 0
                        THEN ev'.call.snap.To ELSE ev'.call.to)
            /\ Len(m'.To) > 0
        /\ (RejectStep /\ config.Enabled) =>
            /\ ev'.v = "ErrNoRecipients"
            /\ Len(ev'.call.to) = 0 /\ Len(config.To) = 0
            /\ UNCHANGED <<calls, svcVars, workerVars, transportVars>>
        /\ \A c \in Accepted :
            /\ c.snap = config
            /\ ~(Len(c.to) = 0 /\ Len(config.To) = 0) ]_vars

\* C10 witness: the worker has taken the message of a call made with an
\* empty to list, carrying the snapshot's default list.
C10_Witness ==
    /\ wpc = "mail"
    /\ ev.op = "SendMail" /\ ev.v = "nil"
    /\ Len(ev.call.to) = 0
    /\ m.To = InitialConfig.To

\* The step in which an Update call returns straight from its argument
\* checks.
UpdateRejectStep == ev'.op = "Update" /\ ev'.call.at = "entry"

\* The Update calls that store their snapshot in this step.
Stored ==
    {c \in BagToSet(calls') :
        /\ c.op = "Update" /\ c.at = "stored"
        /\ CopiesIn(c, calls') > CopiesIn(c, calls)}

\* C11: an Update call whose argument list does not hold exactly one
\* element, or whose element is not a Config, returns an error and changes
\* nothing: not the stored snapshot, not the calls waiting to signal, not
\* the worker's connection state or dialer, not the transport.  Only a call
\* with exactly one Config stores, and only such a store changes the snapshot.
C11_BadUpdateChangesNothing ==
    [][ /\ UpdateRejectStep =>
            /\ Len(ev'.call.args) # 1 \/ ~ev'.call.args[1].isConfig
            /\ ev'.v = (IF Len(ev'.call.args) # 1
                        THEN "expected only one new config object"
                        ELSE "expected config object to be of type Config")
            /\ UNCHANGED <<calls, svcVars, workerVars, transportVars, hist>>
        /\ \A c \in Stored : Len(c.args) = 1 /\ c.args[1].isConfig
        /\ configValue' # configValue => Stored # {} ]_vars

\* C11 witness: an Update with an element that is no Config has just
\* returned its error while the worker holds an open connection and the
\* snapshot is still the initial one.
C11_Witness ==
    /\ ev.op = "Update" /\ ev.call.at = "entry"
    /\ ev.call.args = <<NotAConfig>>
    /\ ev.v = "expected config object to be of type Config"
    /\ opened /\ wpc = "select" /\ open /\ conn \in LiveConns
    /\ configValue = InitialConfig

\* The worker tasks that have been started and have not returned, as the
\* WaitGroup counts them.
RunningWorkers == wg

\* The worker is somewhere in runMailer.
WorkerAlive == wpc \in {"start", "select", "reload", "mail"}

\* C12: Open on an open service and Close on a non-open service return nil
\* and change nothing; an Open that starts a worker makes a fresh queue and
\* does so only when no worker is running; at most one worker runs at any
\* time, and none runs while the service is marked closed and no Close is
\* in progress.
C12_IdempotentSingleWorker ==
    /\ [](/\ RunningWorkers <= 1
          /\ RunningWorkers = (IF WorkerAlive THEN 1 ELSE 0)
          /\ (~opened /\ Call("Close", "wait") \notin InProgress) =>
                RunningWorkers = 0)
    /\ [][ /\ (ev'.op = "Open" /\ opened) =>
                /\ ev'.v = "nil"
                /\ UNCHANGED <<calls, svcVars, workerVars, transportVars, hist>>
           /\ (ev'.op = "Open" /\ ~opened) =>
                /\ ev'.v = "nil"
                /\ RunningWorkers = 0 /\ ~WorkerAlive
                /\ opened' /\ RunningWorkers' = 1 /\ wpc' = "start"
                /\ mail' # mail /\ mail' \notin closedChans
           /\ (ev'.op = "Close" /\ ev'.call.at = "entry") =>
                /\ ev'.v = "nil"
                /\ ~opened
                /\ UNCHANGED <<calls, svcVars, workerVars, transportVars, hist>>
           /\ mail' # mail => (ev'.op = "Open" /\ ~opened) ]_vars

\* C12 witness: an Open on the open service has just returned while the
\* second worker, started after a Close, is running with its connection.
C12_Witness ==
    /\ ev.op = "Open" /\ opened
    /\ mail = 2 /\ closedChans = {1}
    /\ wpc = "select" /\ open /\ RunningWorkers = 1

\* The Update calls that go on to send the signal in this step.
Signalling ==
    {c \in BagToSet(calls') :
        /\ c.op = "Update" /\ c.at = "signal"
        /\ CopiesIn(c, calls') > CopiesIn(c, calls)}

\* C13: a valid Update stores its snapshot; it goes on to signal only when
\* it reads the service as open, and otherwise returns nil at once, without
\* a signal; when it signals, it returns only in the step in which the worker
\* receives the signal.  A worker loads its dialer from the store when it
\* starts, dials with the dialer it holds, and while it waits for or handles
\* a message that dialer is no older than the store of any Update that has
\* returned.
C13_UpdateStoresAndSignalsIfOpen ==
    /\ [](wpc \in {"select", "mail"} => hist.dVer >= hist.retVer)
    /\ [][ /\ \A c \in Stored :
                /\ configValue' = c.args[1].c
                /\ hist'.cfgVer = c.ver /\ hist'.cfgVer = hist.cfgVer + 1
           /\ Signalling # {} => (opened /\ ~mu)
           /\ (ev'.op = "Update" /\ ev'.call.at = "stored") =>
                /\ ev'.v = "nil"
                /\ ~opened /\ ~mu /\ ~WorkerAlive
                /\ UNCHANGED <<svcVars, workerVars, transportVars>>
           /\ (ev'.op = "Update" /\ ev'.call.at = "signal") =>
                /\ ev'.v = "nil"
                /\ wpc = "select" /\ wpc' = "reload"
           /\ (wpc = "select" /\ wpc' = "reload") =>
                (ev'.op = "Update" /\ ev'.call.at = "signal")
           /\ (wpc = "start" /\ wpc' = "select") =>
                /\ d' = dialer(config).d
                /\ idleTimeout' = dialer(config).idleTimeout
                /\ hist'.dVer = hist.cfgVer
           /\ Len(conns') > Len(conns) =>
                conns'[Len(conns')].params = d ]_vars

\* C13 witness: an Update has just stored its snapshot and returned on a
\* service that was opened and closed again, its worker gone.
C13_Witness ==
    /\ ev.op = "Update" /\ ev.call.at = "stored" /\ ev.v = "nil"
    /\ ~opened /\ closedChans = {1} /\ wpc = "exited"
    /\ configValue = ev.call.args[1].c
    /\ configValue # InitialConfig

\* The SendMail calls that are in progress.
SendMailsInProgress ==
    BagCardinality([c \in {x \in InProgress : x.op = "SendMail"} |->
                        CopiesIn(c, calls)])

\* C14: SendMail returns nil only in the step in which the worker takes its
\* message, and the worker takes a message only when it holds none; the
\* transport's send is called only for the message the worker holds, once,
\* and the worker then drops the message: at once when it is connected, after
\* the dial when that succeeds, and not at all only when the dial fails.  So
\* there are never more sends than messages handed over.
C14_SerializedHandOff ==
    /\ [](/\ wpc = "mail" <=> m # NoMsg
          /\ sends + (IF wpc = "mail" THEN 1 ELSE 0) + SendMailsInProgress
                <= hist.sendMails)
    /\ [][ /\ (ev'.op = "SendMail" /\ ev'.v = "nil") =>
                (TakeStep /\ m = NoMsg /\ m' = ev'.call.msg
                 /\ ev'.call.at = "send" /\ ev'.call.ch = mail)
           /\ TakeStep => (ev'.op = "SendMail" /\ ev'.v = "nil")
           /\ sends' # sends =>
                (wpc = "mail" /\ sends' = sends + 1 /\ wpc' = "select")
           /\ (wpc = "mail" /\ wpc' # "mail") =>
                /\ wpc' = "select" /\ m' = NoMsg
                /\ open => (sends' = sends + 1 /\ UNCHANGED <<conns, conn>>)
                /\ Len(conns') > Len(conns) => (~open /\ sends' = sends + 1)
                /\ sends' = sends => (~open /\ conns' = conns /\ ~open') ]_vars

\* C14 witness: SendMail has just returned nil, the worker holds its
\* message and has not sent it yet, and another SendMail call waits on the
\* queue.
C14_Witness ==
    /\ ev.op = "SendMail" /\ ev.v = "nil"
    /\ wpc = "mail" /\ m = ev.call.msg
    /\ sends = 0
    /\ \E c \in InProgress : c.op = "SendMail" /\ c.at = "send" /\ c.ch = mail

\* The step in which the worker gives a message up without a send.
DropStep == wpc = "mail" /\ wpc' # "mail" /\ sends' = sends

\* C15: the worker gives a message up without a send only when it is idle
\* and its dial fails; it is then idle still, holds no handle, holds no
\* message, is back at its select, and has made no transport connection and
\* put nothing back on the queue; the caller of that message got nil when
\* the worker took it.  Every message the worker finishes while idle has had
\* a dial attempt of its own: a new connection with the send over it, or
\* another failure.
C15_DialFailureDropsMessage ==
    [][ /\ DropStep =>
            /\ ~open /\ ~open'
            /\ conn' = NilConn
            /\ m' = NoMsg /\ wpc' = "select"
            /\ UNCHANGED <<calls, svcVars, d, idleTimeout, conns>>
        /\ (wpc = "select" /\ wpc' = "mail") =>
            (ev'.op = "SendMail" /\ ev'.v = "nil" /\ open' = open)
        /\ (wpc = "mail" /\ wpc' # "mail" /\ ~open) =>
            \/ DropStep
            \/ /\ conns' = Append(conns, [params |-> d, closes |-> 0])
               /\ conn' = Len(conns') /\ open'
               /\ sends' = sends + 1 ]_vars

\* C15 witness: two messages were handed over and no queue was ever closed;
\* the first dial failed and that message was dropped, the second message
\* was sent over the connection dialed for it, which is the only one.
C15_Witness ==
    /\ hist.sendMails = 2 /\ SendMailsInProgress = 0 /\ closedChans = {}
    /\ wpc = "select" /\ sends = 1
    /\ open /\ conn = 1 /\ Len(conns) = 1 /\ conns[1].closes = 0

\* C16: once a Close on the open service has closed the queue and waits for
\* the worker, the worker exits and that Close returns, with the worker
\* gone, whatever signals are pending and however often the timer fires.
C16_CloseTerminates ==
    (Call("Close", "wait") \in InProgress) ~>
        (/\ ev.op = "Close" /\ ev.call.at = "wait"
         /\ wpc = "exited" /\ wg = 0
         /\ Call("Close", "wait") \notin InProgress)

\* C16 witness: a Close waits for a connected worker that is at its select
\* while an Update is waiting to hand over its signal.
C16_Witness ==
    /\ Call("Close", "wait") \in InProgress
    /\ wpc = "select" /\ open
    /\ \E c \in InProgress : c.op = "Update" /\ c.at = "signal"

\* The Update call that stored snapshot number v has not returned.
UpdateInProgress(v) == \E c \in InProgress : c.op = "Update" /\ c.ver = v

\* C17: every Update call that has stored its snapshot eventually returns.
C17_UpdateEventuallyReturns ==
    \A v \in 1..MaxUpdates : UpdateInProgress(v) ~> ~UpdateInProgress(v)

\* An Update call is between its store and the hand-over of its signal.
UpdatePending == \E c \in InProgress : c.op = "Update"

\* C18: whenever the worker waits at its select and no Update call is
\* between its store and the hand-over of its signal, the worker's dialer
\* and idle timeout are those derived from the snapshot now stored.
C18_WorkerHasLatestSnapshot ==
    (wpc = "select" /\ ~UpdatePending) =>
        /\ d = dialer(config).d
        /\ idleTimeout = dialer(config).idleTimeout
        /\ hist.dVer = hist.cfgVer

\* C18 witness: two Updates have stored and returned, a reload has dropped
\* an open connection, and the first worker waits at its select with a
\* dialer that is not the one it started with.
C18_Witness ==
    /\ wpc = "select" /\ ~UpdatePending /\ opened /\ mail = 1
    /\ hist.cfgVer = 2 /\ hist.retVer = 2
    /\ hist.reconfConn # NilConn
    /\ d = dialer(config).d
    /\ d # dialer(InitialConfig).d

\* C19: whenever the worker is at its select, open is true exactly when
\* conn is a handle that was dialed and has not been closed; and every send
\* goes over such a handle, never over nil or a closed one.
C19_OpenFlagMeansLiveHandle ==
    /\ [](wpc = "select" => (open <=> conn \in LiveConns))
    /\ [][ SendStep =>
            /\ conn' # NilConn
            /\ conn' \in 1..Len(conns')
            /\ conns'[conn'].closes = 0
            /\ open' ]_vars

\* C19 witness: the worker is at its select after the timer closed the
\* connection it had sent over: open is false and conn still names the
\* closed handle.
C19_Witness ==
    /\ wpc = "select" /\ opened
    /\ ~open /\ conn = 1 /\ conns[1].closes = 1
    /\ sends = 1 /\ hist.reconfMark = 0

\* A SendMail call that passed validation and read s.mail, both on the
\* service as NewService left it, is at its send.
SendOnNeverOpened ==
    \E c \in InProgress : c.op = "SendMail" /\ c.at = "send" /\ c.seen = "never"

\* C20: a SendMail call that passes validation and reaches its send on a
\* service that was never opened eventually returns to its caller.
C20_SendBeforeOpenReturns == SendOnNeverOpened ~> ~SendOnNeverOpened

====
